---- MODULE Spec2Model ----
(***************************************************************************)
(* Model of the VAPI -> Supabase ETL job.                                  *)
(*                                                                         *)
(* The upload stage (src/upload_audio.py): the existence probe with its    *)
(* process-wide cache, the signed-URL issuer, the fetch-and-store          *)
(* operation, the per-row task with its retry loop, and the orchestrator   *)
(* that runs the tasks on a thread pool and compiles the summary.          *)
(*                                                                         *)
(* The pipeline driver (src/main.py): extraction, transformation, upload,  *)
(* merge of the signed URLs and load, with the upload stage in between.    *)
(*                                                                         *)
(* Specifications:                                                         *)
(*   Spec        a process that calls upload_recordings_parallel           *)
(*               repeatedly                                                *)
(*   RunSpec     the first invocation alone                                *)
(*   RetrySpec   one invocation with the sleeps of every row logged        *)
(*   DriverSpec  one run of extract_transform_load_calls                   *)
(*   ProcessSpec   small invocations over a bucket whose objects others    *)
(*                 may delete between them                                 *)
(*   ScriptedSpec  one invocation with fixed responses per row             *)
(*   IssuerSpec    _generate_signed_url with the local clock               *)
(*   ExtractSpec   the pagination loop of extract_calls (src/extract.py)   *)
(*   LoadSpec      load_to_supabase with its batches (src/load.py)         *)
(***************************************************************************)
EXTENDS Integers, Sequences, FiniteSets, TLC

\* ------------------------------------------------------------------------
\* Bounds of the model
\* ------------------------------------------------------------------------
MaxRows == 2
MaxPool == 2
MaxRuns == 2
MaxRerunRows == 1
MaxObservedRows == 1
MaxCalls == 2
MaxTicks == 2
MaxPages == 3
MaxBatches == 3

\* ------------------------------------------------------------------------
\* Program constants (src/config.py)
\* ------------------------------------------------------------------------
MAX_RETRIES == 3
BACKOFF_BASE == 2
MAX_WORKERS == 5
SIGNED_URL_EXPIRY_HOURS == 24 * 7
VAPI_PAGE_LIMIT == 1000

\* the largest totalItems the guard of extract_calls lets pass
MAX_TOTAL_ITEMS == 10000

\* BATCH_SIZE of load_to_supabase
BATCH_SIZE == 1000

\* the upper end of random.uniform(0, 2) in the backoff (src/upload_audio.py)
JITTER_MAX == 2

\* the winerror of a socket operation that would block (src/upload_audio.py)
WSAEWOULDBLOCK == 10035

\* ------------------------------------------------------------------------
\* Values
\* ------------------------------------------------------------------------
None == "None"
Keys == {"k1", "k2"}
Urls == {"u1"}
OldObject == "old"

\* the rows of a DataFrame: an id and an optional stereo_recording_url
Row == [id : Keys, stereo_recording_url : Urls \cup {None}]

RECURSIVE SeqsUpTo(_, _)
SeqsUpTo(S, n) ==
    IF n = 0 THEN {<<>>}
    ELSE LET shorter == SeqsUpTo(S, n - 1)
         IN  shorter \cup {Append(s, x) : s \in {t \in shorter : Len(t) = n - 1}, x \in S}

DataFrames == SeqsUpTo(Row, MaxRows)

\* the DataFrames of the later invocations of one process
RerunDataFrames == SeqsUpTo(Row, MaxRerunRows)

\* the DataFrames of an invocation whose sleeps are logged
ObservedDataFrames == SeqsUpTo(Row, MaxObservedRows)

\* a call record of the VAPI API, as far as the pipeline reads it
Call == [id : Keys, stereoRecordingUrl : Urls \cup {None}]

\* what extract_calls can return to the driver
ExtractResults ==
    {[success |-> FALSE, calls |-> <<>>, num_calls |-> 0]}
        \cup {[success |-> TRUE, calls |-> c, num_calls |-> Len(c)] :
                 c \in SeqsUpTo(Call, MaxCalls)}

\* how the lookup of existing records in transform_calls can end
TransformOutcomes == {"lookup_raises", "ok"}

\* how the upsert of load_to_supabase can end
LoadOutcomes == {"schema_invalid", "upsert_raises", "no_data", "upserted"}

\* what the remote services and the network may answer
HeadResponses == {"200", "404", "401", "RequestException"}
IssueOutcomes == {"client_raises", "remote_raises", "no_url", "ok"}
StoreOutcomes == {"client_raises", "fetch_fails", "congestion", "store_fails", "stored"}

\* the two ends of the interval random.uniform(0, JITTER_MAX) draws from
Jitters == {0, JITTER_MAX}

SignedUrl(call_id) == IF call_id = "k1" THEN "signed_k1" ELSE "signed_k2"
ExpiryIso == "expiry_iso"

VARIABLES
    df,                     \* the DataFrame passed to upload_recordings_parallel
    max_workers,            \* its max_workers argument
    run,                    \* number of the invocation in this process
    main_pc,                \* position of the calling thread
    task,                   \* per row: position of upload_task, attempt, return value
    seen_existing_files,    \* _seen_existing_files, the process-wide cache
    bucket,                 \* remote bucket: key -> stored content or None
    failed_records,         \* failed_records of the invocation
    skipped_no_url_records, \* skipped_no_url_records of the invocation
    results,                \* results, in submission order
    upload_map,             \* the returned upload_map
    summary,                \* the returned summary
    failed_uploads_csv,     \* content of FAILED_UPLOADS_CSV on disk
    sleep_log,              \* per observed row: the time.sleep calls made for it
    driver_pc,              \* position of extract_transform_load_calls
    extract_result,         \* its local extract_result
    merged,                 \* its df after the signed URLs are mapped back
    load_result,            \* its local load_result
    script,                 \* per row: the fixed responses of a scripted run
    issuer,                 \* one call of _generate_signed_url and the clock
    extractor,              \* one call of extract_calls and its requests
    loader                  \* one call of load_to_supabase and its batches

\* the state of the pipeline driver (src/main.py)
driverVars == <<driver_pc, extract_result, merged, load_result>>

\* the state of the scripted run and of the calls of single functions
sideVars == <<script, issuer, extractor, loader>>

\* the state of upload_recordings_parallel and of what it works on
uploadVars == <<df, max_workers, run, main_pc, task, seen_existing_files, bucket,
                failed_records, skipped_no_url_records, results, upload_map,
                summary, failed_uploads_csv, sleep_log>>

vars == <<uploadVars, driverVars, sideVars>>


\* ------------------------------------------------------------------------
\* Helpers of src/upload_audio.py as operators
\* ------------------------------------------------------------------------

\* what a HEAD request for call_id can answer, given the bucket
HeadPossible(resp, bkt, call_id) ==
    /\ resp = "200" => bkt[call_id] # None
    /\ resp = "404" => bkt[call_id] = None

\* what create_signed_url can answer: a URL only for an object that exists
IssuePossible(io, bkt, call_id) ==
    io = "ok" => bkt[call_id] # None

\* a probe that takes an unexpected status for found
FileExistsAfterHeadLenient(resp) ==
    IF resp = "404" \/ resp = "RequestException" THEN FALSE
    ELSE TRUE

\* _file_exists_in_bucket, the part after the cache lookup: the value
\* returned for the response of the HEAD request
FileExistsAfterHead(resp) ==
    IF resp = "200" THEN TRUE
    ELSE IF resp = "404" THEN FALSE
    ELSE FALSE

\* a cache that remembers every key whose probe did not answer 404
SeenAfterHeadUnlessNotFound(seen, call_id, resp) ==
    IF resp = "404" THEN seen ELSE seen \cup {call_id}

\* _file_exists_in_bucket: the cache after the HEAD request
SeenAfterHead(seen, call_id, resp) ==
    IF resp = "200" THEN seen \cup {call_id} ELSE seen

\* _generate_signed_url: client construction is outside the try block and
\* raises to the caller; a remote error gives (None, None); a response
\* without a URL gives (None, expiry)
GenerateSignedUrl(call_id, io) ==
    IF io = "client_raises"
    THEN [raised |-> TRUE, signed_url |-> None, expiry |-> None]
    ELSE IF io = "remote_raises"
    THEN [raised |-> FALSE, signed_url |-> None, expiry |-> None]
    ELSE IF io = "no_url"
    THEN [raised |-> FALSE, signed_url |-> None, expiry |-> ExpiryIso]
    ELSE [raised |-> FALSE, signed_url |-> SignedUrl(call_id), expiry |-> ExpiryIso]

\* an upload without the overwrite option
upsertOff == "false"

\* the file option passed to bucket.upload
upsert == "true"

\* bucket.upload(filename, content, {"upsert": ...}): whether the remote
\* rejects the upload because the object exists
UploadConflict(bkt, call_id, upsertOpt) ==
    bkt[call_id] # None /\ upsertOpt # "true"

\* getattr(e, "winerror", None) of the OSError an outcome raises, 0 for none
Winerror(so) == IF so = "congestion" THEN WSAEWOULDBLOCK ELSE 0

\* a handler that treats no OSError as congestion
IsCongestionNever(winerror) == FALSE

\* if getattr(e, "winerror", None) == 10035
IsCongestion(winerror) == winerror = WSAEWOULDBLOCK

\* _upload_recording(call_id, url) for the outcomes so of client
\* construction, fetch and store, and io of the issuance that follows a store
UploadRecording(call_id, url, so, io, bkt) ==
    IF so = "client_raises"
    THEN [raised |-> TRUE, exc |-> "Exception", slept |-> FALSE,
          signed_url |-> None, expiry |-> None, bucket |-> bkt]
    ELSE IF so = "fetch_fails" \/ so = "congestion"
    THEN IF IsCongestion(Winerror(so))
         THEN [raised |-> TRUE, exc |-> "OSError", slept |-> TRUE,
               signed_url |-> None, expiry |-> None, bucket |-> bkt]
         ELSE [raised |-> TRUE, exc |-> "RuntimeError", slept |-> FALSE,
               signed_url |-> None, expiry |-> None, bucket |-> bkt]
    ELSE IF so = "store_fails" \/ UploadConflict(bkt, call_id, upsert)
    THEN [raised |-> TRUE, exc |-> "RuntimeError", slept |-> FALSE,
          signed_url |-> None, expiry |-> None, bucket |-> bkt]
    ELSE LET stored == [bkt EXCEPT ![call_id] = url]
             issued == GenerateSignedUrl(call_id, io)
         IN  IF issued.raised
             THEN [raised |-> TRUE, exc |-> "RuntimeError", slept |-> FALSE,
                   signed_url |-> None, expiry |-> None, bucket |-> stored]
             ELSE [raised |-> FALSE, exc |-> None, slept |-> FALSE,
                   signed_url |-> issued.signed_url, expiry |-> issued.expiry,
                   bucket |-> stored]

\* the tuple upload_task returns
Ret(call_id, url, expiry, status) ==
    [call_id |-> call_id, signed_url |-> url, expiry |-> expiry, status |-> status]

NoRet == Ret(None, None, None, "pending")

\* the locals signed_url, expiry_time: the last pair _generate_signed_url
\* or _upload_recording returned to the task
Pair(url, expiry) == [signed_url |-> url, expiry |-> expiry]

\* a task that has not started: attempt is the loop variable, fails counts
\* the calls of _upload_recording that raised, sleeps the backoff sleeps of
\* the loop that have ended
QueuedTask == [pc |-> "queued", attempt |-> 0, fails |-> 0, sleeps |-> 0,
               issued |-> Pair(None, None), ret |-> NoRet]

\* the sleeps of a row: socket_sleeps counts the congestion sleeps inside
\* _upload_recording, wait_times lists the backoff sleeps of the retry loop
NoSleeps == [socket_sleeps |-> 0, wait_times |-> <<>>]

\* the sleeps one iteration of the retry loop adds: up is what
\* _upload_recording did, again whether the loop retries, wait its wait_time
LogSleeps(log, up, again, wait) ==
    [socket_sleeps |-> IF up.slept THEN log.socket_sleeps + 1 ELSE log.socket_sleeps,
     wait_times |-> IF up.raised /\ again THEN Append(log.wait_times, wait)
                    ELSE log.wait_times]

\* a backoff of the same length before every retry
WaitTimeConstant(attempt, jitter) == BACKOFF_BASE + jitter

\* wait_time = BACKOFF_BASE * attempt + random.uniform(0, 2)
WaitTime(attempt, jitter) == BACKOFF_BASE * attempt + jitter

\* a retry guard that is off by one
RetryAgainOffByOne(attempt) == attempt <= MAX_RETRIES

\* if attempt < MAX_RETRIES: sleep and try again
RetryAgain(attempt) == attempt < MAX_RETRIES

\* a spool entry that keeps only the id of the row
FailedRecordIdOnly(row) ==
    [id |-> row.id, stereo_recording_url |-> None]

\* the dict appended to failed_records
FailedRecord(row) ==
    [id |-> row.id, stereo_recording_url |-> row.stereo_recording_url]

\* a URL check that lets every row through
MissingUrlNever(stereo_url) == FALSE

\* if not stereo_url: the row has no recording to copy
MissingUrl(stereo_url) == stereo_url = None

\* a loop that skips an attempt number
NextAttemptSkipping(attempt) == attempt + 2

\* for attempt in range(1, MAX_RETRIES + 1): the next value of the loop variable
NextAttempt(attempt) == attempt + 1

Running == {i \in DOMAIN task : task[i].pc \in {"head", "issue", "attempt", "backoff"}}

EmptyMap == [k \in {} |-> None]

\* FAILED_UPLOADS_CSV before any run has written it
NoFile == [written |-> FALSE, rows |-> <<>>]

\* extract_result and load_result before the stages have run
NoExtract == [success |-> FALSE, calls |-> <<>>, num_calls |-> 0]

NoLoad == [called |-> FALSE, success |-> 0, failed |-> 0]

NoSummary == [total |-> 0, success |-> 0, uploaded |-> 0, signed_url_generated |-> 0,
              skipped_no_stereo_url |-> 0, failed |-> 0]

\* issuer before _generate_signed_url is called: expiry and expires_at are
\* <<>> for None and <<t>> for a value
NoData == [kind |-> "none", expires_at |-> <<>>]

NoIssued == [raised |-> FALSE, signed_url |-> None, expiry |-> <<>>]

NoExtractor == [pc |-> "not_run"]

NoLoader == [pc |-> "not_run"]

NoIssuer == [pc |-> "not_run", now |-> 0, ticks |-> 0, call_id |-> None,
             expires_in |-> 0, data |-> NoData, ret |-> NoIssued]

\* ------------------------------------------------------------------------
\* Initial state: the module is imported and upload_recordings_parallel is
\* called for the first time
\* ------------------------------------------------------------------------
Init ==
    /\ df \in DataFrames
    /\ max_workers \in 1..MaxPool
    /\ run = 1
    /\ main_pc = "pool"
    /\ task = [i \in 1..Len(df) |-> QueuedTask]
    /\ seen_existing_files = {}
    /\ bucket \in [Keys -> {None, OldObject}]
    /\ failed_records = <<>>
    /\ skipped_no_url_records = <<>>
    /\ results = <<>>
    /\ upload_map = EmptyMap
    /\ summary = NoSummary
    /\ failed_uploads_csv = NoFile
    /\ sleep_log = <<>>
    /\ driver_pc = "not_run"
    /\ extract_result = NoExtract
    /\ merged = <<>>
    /\ load_result = NoLoad
    /\ script = <<>>
    /\ issuer = NoIssuer
    /\ extractor = NoExtractor
    /\ loader = NoLoader


\* ------------------------------------------------------------------------
\* upload_task, one instance per row, run by the pool's worker threads
\* ------------------------------------------------------------------------

Finish(tk, i, ret) == [tk EXCEPT ![i].pc = "done", ![i].ret = ret]

\* a lookup that takes any entry of the cache for the entry of the key
CacheHitAny(seen, call_id) == seen # {}

\* if call_id in _seen_existing_files: return True
CacheHit(seen, call_id) == call_id \in seen

\* a pool that hands a task to a thread whatever the number of busy threads
WorkerFreeAlways(running, workers) == TRUE

\* ThreadPoolExecutor(max_workers=max_workers): a queued task is taken only
\* by one of the pool's max_workers threads, each running one task at a time
WorkerFree(running, workers) == Cardinality(running) < workers

\* a worker takes the next queued row (the pool's queue is FIFO); the task
\* checks the URL and looks the key up in the cache
Start(i) ==
    /\ main_pc = "pool"
    /\ i \in DOMAIN task
    /\ task[i].pc = "queued"
    /\ \A j \in 1..(i - 1) : task[j].pc # "queued"
    /\ WorkerFree(Running, max_workers)
    /\ LET call_id == df[i].id
           stereo_url == df[i].stereo_recording_url
       IN  IF MissingUrl(stereo_url)
           THEN /\ skipped_no_url_records' = Append(skipped_no_url_records, [id |-> call_id])
                /\ task' = Finish(task, i, Ret(call_id, None, None, "skipped_no_stereo_url"))
           ELSE /\ UNCHANGED skipped_no_url_records
                /\ IF CacheHit(seen_existing_files, call_id)
                   THEN task' = [task EXCEPT ![i].pc = "issue"]
                   ELSE task' = [task EXCEPT ![i].pc = "head"]
    /\ UNCHANGED <<df, max_workers, run, main_pc, seen_existing_files, bucket,
                   failed_records, results, upload_map, summary,
                   failed_uploads_csv>>
    /\ UNCHANGED <<sleep_log, driverVars>>
    /\ UNCHANGED sideVars

\* _file_exists_in_bucket after a cache miss: the HEAD request and its result
HeadRequest(i, resp) ==
    /\ i \in DOMAIN task
    /\ task[i].pc = "head"
    /\ HeadPossible(resp, bucket, df[i].id)
    /\ seen_existing_files' = SeenAfterHead(seen_existing_files, df[i].id, resp)
    /\ IF FileExistsAfterHead(resp)
       THEN task' = [task EXCEPT ![i].pc = "issue"]
       ELSE task' = [task EXCEPT ![i].pc = "attempt", ![i].attempt = 1]
    /\ UNCHANGED <<df, max_workers, run, main_pc, bucket, failed_records,
                   skipped_no_url_records, results, upload_map,
                   summary, failed_uploads_csv>>
    /\ UNCHANGED <<sleep_log, driverVars>>
    /\ UNCHANGED sideVars

\* the file is in the bucket: _generate_signed_url and the return
IssueExisting(i, io) ==
    /\ i \in DOMAIN task
    /\ task[i].pc = "issue"
    /\ IssuePossible(io, bucket, df[i].id)
    /\ LET call_id == df[i].id
           issued == GenerateSignedUrl(call_id, io)
       IN  IF issued.raised
           THEN /\ task' = [task EXCEPT ![i].pc = "raised"]
                /\ UNCHANGED failed_records
           ELSE LET got == [task EXCEPT ![i].issued = Pair(issued.signed_url, issued.expiry)]
                IN  IF issued.signed_url # None
                    THEN /\ task' = Finish(got, i, Ret(call_id, issued.signed_url,
                                                       issued.expiry, "signed_url_generated"))
                         /\ UNCHANGED failed_records
                    ELSE /\ failed_records' = Append(failed_records, FailedRecord(df[i]))
                         /\ task' = Finish(got, i, Ret(call_id, None, None, "failed"))
    /\ UNCHANGED <<df, max_workers, run, main_pc, seen_existing_files, bucket,
                   skipped_no_url_records, results, upload_map,
                   summary, failed_uploads_csv>>
    /\ UNCHANGED <<sleep_log, driverVars>>
    /\ UNCHANGED sideVars

\* sleep_log after an iteration of the retry loop of row i
Logged(i, up, again, wait) ==
    IF i \in DOMAIN sleep_log
    THEN [sleep_log EXCEPT ![i] = LogSleeps(@, up, again, wait)]
    ELSE sleep_log

\* one iteration of the retry loop: _upload_recording and what follows it
Attempt(i, so, io) ==
    /\ i \in DOMAIN task
    /\ task[i].pc = "attempt"
    /\ so # "stored" => io = "ok"
    /\ LET call_id == df[i].id
           stereo_url == df[i].stereo_recording_url
           up == UploadRecording(call_id, stereo_url, so, io, bucket)
       IN  /\ bucket' = up.bucket
           /\ IF ~up.raised
              THEN /\ task' = Finish([task EXCEPT ![i].issued = Pair(up.signed_url, up.expiry)],
                                      i, Ret(call_id, up.signed_url, up.expiry, "uploaded"))
                   /\ sleep_log' = Logged(i, up, FALSE, 0)
                   /\ UNCHANGED failed_records
              ELSE LET caught == [task EXCEPT ![i].fails = @ + 1]
                   IN  IF RetryAgain(task[i].attempt)
                       THEN /\ task' = [caught EXCEPT ![i].pc = "backoff"]
                            /\ \E jitter \in Jitters :
                                  sleep_log' = Logged(i, up, TRUE,
                                                      WaitTime(task[i].attempt, jitter))
                            /\ UNCHANGED failed_records
                       ELSE /\ failed_records' = Append(failed_records, FailedRecord(df[i]))
                            /\ sleep_log' = Logged(i, up, FALSE, 0)
                            /\ task' = Finish(caught, i, Ret(call_id, None, None, "failed"))
    /\ UNCHANGED <<df, max_workers, run, main_pc, seen_existing_files,
                   skipped_no_url_records, results, upload_map,
                   summary, failed_uploads_csv>>
    /\ UNCHANGED driverVars
    /\ UNCHANGED sideVars

\* time.sleep(wait_time) returns and the loop goes to the next attempt
BackoffSleep(i) ==
    /\ i \in DOMAIN task
    /\ task[i].pc = "backoff"
    /\ task' = [task EXCEPT ![i].pc = "attempt", ![i].attempt = NextAttempt(@),
                             ![i].sleeps = @ + 1]
    /\ UNCHANGED <<df, max_workers, run, main_pc, seen_existing_files, bucket,
                   failed_records, skipped_no_url_records, results,
                   upload_map, summary, failed_uploads_csv>>
    /\ UNCHANGED <<sleep_log, driverVars>>
    /\ UNCHANGED sideVars


\* ------------------------------------------------------------------------
\* upload_recordings_parallel, the calling thread
\* ------------------------------------------------------------------------

\* the result iterator of executor.map reaches a task that raised: the
\* futures not yet started are cancelled and the exception leaves the list()
Unwind ==
    /\ main_pc = "pool"
    /\ \E i \in DOMAIN task :
          /\ task[i].pc = "raised"
          /\ \A j \in 1..(i - 1) : task[j].pc = "done"
    /\ task' = [i \in DOMAIN task |->
                   IF task[i].pc = "queued" THEN [task[i] EXCEPT !.pc = "cancelled"]
                   ELSE task[i]]
    /\ main_pc' = "unwinding"
    /\ UNCHANGED <<df, max_workers, run, seen_existing_files, bucket,
                   failed_records, skipped_no_url_records, results,
                   upload_map, summary, failed_uploads_csv>>
    /\ UNCHANGED <<sleep_log, driverVars>>
    /\ UNCHANGED sideVars

\* the with block waits for the running tasks, then the exception leaves
\* upload_recordings_parallel
Propagate ==
    /\ main_pc = "unwinding"
    /\ Running = {}
    /\ main_pc' = "raised"
    /\ UNCHANGED <<df, max_workers, run, task, seen_existing_files, bucket,
                   failed_records, skipped_no_url_records, results,
                   upload_map, summary, failed_uploads_csv>>
    /\ UNCHANGED <<sleep_log, driverVars>>
    /\ UNCHANGED sideVars

\* one entry of the upload_map comprehension
MapEntry(r) == [signed_url |-> r.signed_url, signed_url_expiry |-> r.expiry]

\* a comprehension that keeps only the rows that got a signed URL
PutEntryIfSigned(map, r) ==
    IF r.signed_url = None THEN map
    ELSE [k \in DOMAIN map \cup {r.call_id} |->
             IF k = r.call_id THEN MapEntry(r) ELSE map[k]]

\* a map that keeps the first entry written for a key
PutEntryFirstWins(map, r) ==
    [k \in DOMAIN map \cup {r.call_id} |->
        IF k \in DOMAIN map THEN map[k] ELSE MapEntry(r)]

PutEntry(map, r) ==
    [k \in DOMAIN map \cup {r.call_id} |->
        IF k = r.call_id THEN MapEntry(r) ELSE map[k]]

\* upload_map = {call_id: {...} for call_id, url, expiry, _ in results}:
\* the entries are written in the order of results, a later one over an
\* earlier one of the same key
RECURSIVE BuildUploadMap(_)
BuildUploadMap(res) ==
    IF res = <<>> THEN EmptyMap
    ELSE PutEntry(BuildUploadMap(SubSeq(res, 1, Len(res) - 1)), res[Len(res)])

\* a count over the distinct call ids instead of over the rows
CountStatusByKey(res, status) ==
    Cardinality({res[i].call_id : i \in {j \in 1..Len(res) : res[j].status = status}})

\* sum(1 for _, _, _, s in results if s == status)
CountStatus(res, status) ==
    Cardinality({i \in 1..Len(res) : res[i].status = status})

Summarize(res, total_processed) ==
    LET uploaded_count == CountStatus(res, "uploaded")
        signed_url_generated_count == CountStatus(res, "signed_url_generated")
        skipped_no_url_count == CountStatus(res, "skipped_no_stereo_url")
        failed_count == CountStatus(res, "failed")
    IN  [total |-> total_processed,
         success |-> uploaded_count + signed_url_generated_count,
         uploaded |-> uploaded_count,
         signed_url_generated |-> signed_url_generated_count,
         skipped_no_stereo_url |-> skipped_no_url_count,
         failed |-> failed_count]

\* a save that writes the file in every invocation
SaveFailedAlways(file, failed) ==
    [written |-> TRUE, rows |-> failed]

\* pd.DataFrame(failed_records).to_csv(FAILED_UPLOADS_CSV), only if any
SaveFailed(file, failed) ==
    IF failed # <<>> THEN [written |-> TRUE, rows |-> failed] ELSE file

\* a with block that ends as soon as the first task has returned
PoolDrainedEarly(tk) == \E i \in DOMAIN tk : tk[i].pc = "done"

\* list(executor.map(...)) has collected every result and the with block of
\* the executor has ended: every task of the run has returned
PoolDrained(tk) == \A i \in DOMAIN tk : tk[i].pc = "done"

\* every task has returned: the with block ends, results holds the tuples
\* in submission order, and the function compiles upload_map and the
\* counts, saves the failed uploads and returns
CompileResults ==
    /\ main_pc = "pool"
    /\ PoolDrained(task)
    /\ LET res == [i \in 1..Len(df) |-> task[i].ret]
       IN  /\ results' = res
           /\ upload_map' = BuildUploadMap(res)
           /\ summary' = Summarize(res, Len(df))
    /\ failed_uploads_csv' = SaveFailed(failed_uploads_csv, failed_records)
    /\ main_pc' = "returned"
    /\ UNCHANGED <<df, max_workers, run, task, seen_existing_files, bucket,
                   failed_records, skipped_no_url_records>>
    /\ UNCHANGED <<sleep_log, driverVars>>
    /\ UNCHANGED sideVars

\* the process calls upload_recordings_parallel again with its pool size:
\* the locals are fresh, the cache, the bucket and the file stay
Invoke(new_df) ==
    /\ main_pc = "returned"
    /\ run < MaxRuns
    /\ run' = run + 1
    /\ df' = new_df
    /\ UNCHANGED max_workers
    /\ task' = [i \in 1..Len(new_df) |-> QueuedTask]
    /\ failed_records' = <<>>
    /\ skipped_no_url_records' = <<>>
    /\ results' = <<>>
    /\ upload_map' = EmptyMap
    /\ summary' = NoSummary
    /\ main_pc' = "pool"
    /\ UNCHANGED <<seen_existing_files, bucket, failed_uploads_csv>>
    /\ sleep_log' = [i \in DOMAIN sleep_log |-> NoSleeps]
    /\ UNCHANGED driverVars
    /\ UNCHANGED sideVars

Next ==
    \/ \E i \in 1..MaxRows : Start(i)
    \/ \E i \in 1..MaxRows, resp \in HeadResponses : HeadRequest(i, resp)
    \/ \E i \in 1..MaxRows, io \in IssueOutcomes : IssueExisting(i, io)
    \/ \E i \in 1..MaxRows, so \in StoreOutcomes, io \in IssueOutcomes : Attempt(i, so, io)
    \/ \E i \in 1..MaxRows : BackoffSleep(i)
    \/ Unwind
    \/ Propagate
    \/ CompileResults
    \/ \E new_df \in RerunDataFrames : Invoke(new_df)

Spec == Init /\ [][Next]_vars


\* ------------------------------------------------------------------------
\* A process of small invocations over a bucket that others change too
\* ------------------------------------------------------------------------

\* every invocation of the process, the first included, gets a small frame
ProcessInit ==
    /\ Init
    /\ df \in RerunDataFrames

\* somebody else deletes the object of a key from the bucket between two
\* invocations; the process does not see it, its cache is not told
RemoveObject(k) ==
    /\ main_pc = "returned"
    /\ bucket[k] # None
    /\ bucket' = [bucket EXCEPT ![k] = None]
    /\ UNCHANGED <<df, max_workers, run, main_pc, task, seen_existing_files,
                   failed_records, skipped_no_url_records, results, upload_map,
                   summary, failed_uploads_csv>>
    /\ UNCHANGED <<sleep_log, driverVars>>
    /\ UNCHANGED sideVars

ProcessNext ==
    \/ Next
    \/ \E k \in Keys : RemoveObject(k)

ProcessSpec == ProcessInit /\ [][ProcessNext]_vars



\* ------------------------------------------------------------------------
\* One invocation with fixed responses: every row has its own answer of the
\* HEAD request, of the fetch and store, and of the issuance, whatever the
\* moment at which its task asks
\* ------------------------------------------------------------------------

\* the responses a row can be given: the HEAD answer agrees with the bucket,
\* and the answers the row never asks for have one fixed value
RowScripts(row, bkt) ==
    IF MissingUrl(row.stereo_recording_url)
    THEN {[head |-> "RequestException", store |-> "stored", issue |-> "ok"]}
    ELSE {sc \in [head : HeadResponses, store : StoreOutcomes, issue : IssueOutcomes] :
             /\ HeadPossible(sc.head, bkt, row.id)
             /\ sc.head = "200" => sc.store = "stored" /\ IssuePossible(sc.issue, bkt, row.id)
             /\ (sc.head # "200" /\ sc.store # "stored") => sc.issue = "ok"}

ScriptedInit ==
    /\ df \in {f \in DataFrames : \A i, j \in 1..Len(f) : i # j => f[i].id # f[j].id}
    /\ max_workers \in 1..MaxPool
    /\ bucket \in [Keys -> {None, OldObject}]
    /\ script \in {sc \in [1..Len(df) -> [head : HeadResponses, store : StoreOutcomes,
                                          issue : IssueOutcomes]] :
                       \A i \in 1..Len(df) : sc[i] \in RowScripts(df[i], bucket)}
    /\ run = 1
    /\ main_pc = "pool"
    /\ task = [i \in 1..Len(df) |-> QueuedTask]
    /\ seen_existing_files = {}
    /\ failed_records = <<>>
    /\ skipped_no_url_records = <<>>
    /\ results = <<>>
    /\ upload_map = EmptyMap
    /\ summary = NoSummary
    /\ failed_uploads_csv = NoFile
    /\ sleep_log = <<>>
    /\ driver_pc = "not_run"
    /\ extract_result = NoExtract
    /\ merged = <<>>
    /\ load_result = NoLoad
    /\ issuer = NoIssuer
    /\ extractor = NoExtractor
    /\ loader = NoLoader

ScriptedNext ==
    \/ \E i \in DOMAIN script : Start(i)
    \/ \E i \in DOMAIN script : HeadRequest(i, script[i].head)
    \/ \E i \in DOMAIN script : IssueExisting(i, script[i].issue)
    \/ \E i \in DOMAIN script : Attempt(i, script[i].store, script[i].issue)
    \/ \E i \in DOMAIN script : BackoffSleep(i)
    \/ Unwind
    \/ Propagate
    \/ CompileResults

ScriptedSpec == ScriptedInit /\ [][ScriptedNext]_vars

\* ------------------------------------------------------------------------
\* The first invocation alone: upload_recordings_parallel is called once
\* ------------------------------------------------------------------------
RunNext ==
    \/ \E i \in 1..MaxRows : Start(i)
    \/ \E i \in 1..MaxRows, resp \in HeadResponses : HeadRequest(i, resp)
    \/ \E i \in 1..MaxRows, io \in IssueOutcomes : IssueExisting(i, io)
    \/ \E i \in 1..MaxRows, so \in StoreOutcomes, io \in IssueOutcomes : Attempt(i, so, io)
    \/ \E i \in 1..MaxRows : BackoffSleep(i)
    \/ Unwind
    \/ Propagate
    \/ CompileResults

RunSpec == Init /\ [][RunNext]_vars


\* ------------------------------------------------------------------------
\* One invocation with the sleeps of every row logged
\* ------------------------------------------------------------------------
RetryInit ==
    /\ df \in ObservedDataFrames
    /\ max_workers \in 1..MaxPool
    /\ run = 1
    /\ main_pc = "pool"
    /\ task = [i \in 1..Len(df) |-> QueuedTask]
    /\ seen_existing_files = {}
    /\ bucket \in [Keys -> {None, OldObject}]
    /\ failed_records = <<>>
    /\ skipped_no_url_records = <<>>
    /\ results = <<>>
    /\ upload_map = EmptyMap
    /\ summary = NoSummary
    /\ failed_uploads_csv = NoFile
    /\ sleep_log = [i \in 1..Len(df) |-> NoSleeps]
    /\ driver_pc = "not_run"
    /\ extract_result = NoExtract
    /\ merged = <<>>
    /\ load_result = NoLoad
    /\ script = <<>>
    /\ issuer = NoIssuer
    /\ extractor = NoExtractor
    /\ loader = NoLoader

RetryNext ==
    \/ \E i \in 1..MaxObservedRows : Start(i)
    \/ \E i \in 1..MaxObservedRows, resp \in HeadResponses : HeadRequest(i, resp)
    \/ \E i \in 1..MaxObservedRows, io \in IssueOutcomes : IssueExisting(i, io)
    \/ \E i \in 1..MaxObservedRows, so \in StoreOutcomes, io \in IssueOutcomes :
          Attempt(i, so, io)
    \/ \E i \in 1..MaxObservedRows : BackoffSleep(i)
    \/ Unwind
    \/ Propagate
    \/ CompileResults

RetrySpec == RetryInit /\ [][RetryNext]_vars


\* ------------------------------------------------------------------------
\* extract_transform_load_calls, the pipeline driver (src/main.py)
\* ------------------------------------------------------------------------

\* _build_row, the two columns the upload stage reads
BuildRow(c) == [id |-> c.id, stereo_recording_url |-> c.stereoRecordingUrl]

\* transform_calls: one row per call, in the order of the calls
TransformCalls(calls) == [i \in 1..Len(calls) |-> BuildRow(calls[i])]

\* upload_map.get(x, {}).get(column)
MapGet(map, x, column) == IF x \in DOMAIN map THEN map[x][column] ELSE None

\* df["signed_url"], df["signed_url_expiry"] = df["id"].map(...)
MergeSignedUrls(frame, map) ==
    [i \in 1..Len(frame) |->
        [id |-> frame[i].id,
         stereo_recording_url |-> frame[i].stereo_recording_url,
         signed_url |-> MapGet(map, frame[i].id, "signed_url"),
         signed_url_expiry |-> MapGet(map, frame[i].id, "signed_url_expiry")]]

\* a driver that stops when a recording could not be copied
ProceedsIfNoneFailed(upload_summary) == upload_summary.failed = 0

\* between the return of upload_recordings_parallel and the load the
\* driver reads the counts of upload_summary for the log and the final
\* report only: no branch depends on them
ProceedsAfterUpload(upload_summary) == TRUE

\* load_to_supabase for a frame that fits one batch
LoadToSupabase(frame, lo) ==
    IF Len(frame) = 0
    THEN [called |-> TRUE, success |-> 0, failed |-> 0]
    ELSE IF lo = "schema_invalid"
    THEN [called |-> TRUE, success |-> 0, failed |-> Len(frame)]
    ELSE IF lo = "upserted"
    THEN [called |-> TRUE, success |-> Len(frame), failed |-> 0]
    ELSE [called |-> TRUE, success |-> 0, failed |-> Len(frame)]

\* the process starts the pipeline: nothing has run, the module-level
\* cache is empty and the pool size is the default of the orchestrator
DriverInit ==
    /\ driver_pc = "extract"
    /\ extract_result = NoExtract
    /\ merged = <<>>
    /\ load_result = NoLoad
    /\ df = <<>>
    /\ max_workers = MAX_WORKERS
    /\ run = 0
    /\ main_pc = "not_called"
    /\ task = <<>>
    /\ seen_existing_files = {}
    /\ bucket \in [Keys -> {None, OldObject}]
    /\ failed_records = <<>>
    /\ skipped_no_url_records = <<>>
    /\ results = <<>>
    /\ upload_map = EmptyMap
    /\ summary = NoSummary
    /\ failed_uploads_csv = NoFile
    /\ sleep_log = <<>>
    /\ script = <<>>
    /\ issuer = NoIssuer
    /\ extractor = NoExtractor
    /\ loader = NoLoader

\* a driver that goes on with an empty list of calls
AfterExtractIgnoringEmpty(result) ==
    IF ~result.success THEN "extract_failed" ELSE "transform"

\* if not extract_result.get("success"): return
\* if extract_count == 0: return
AfterExtract(result) ==
    IF ~result.success THEN "extract_failed"
    ELSE IF result.num_calls = 0 THEN "no_calls"
    ELSE "transform"

\* extract_calls returns; the driver returns early when the extraction
\* failed or found no call
ExtractStage(result) ==
    /\ driver_pc = "extract"
    /\ extract_result' = result
    /\ driver_pc' = AfterExtract(result)
    /\ UNCHANGED <<merged, load_result>>
    /\ UNCHANGED <<df, max_workers, run, main_pc, task, seen_existing_files, bucket,
                   failed_records, skipped_no_url_records, results, upload_map,
                   summary, failed_uploads_csv, sleep_log>>
    /\ UNCHANGED sideVars

\* transform_calls returns the DataFrame and the driver calls
\* upload_recordings_parallel(df); an exception of the lookup of existing
\* records leaves the driver
TransformStage(outcome) ==
    /\ driver_pc = "transform"
    /\ IF outcome = "lookup_raises"
       THEN /\ driver_pc' = "raised"
            /\ UNCHANGED <<df, run, main_pc, task>>
       ELSE /\ df' = TransformCalls(extract_result.calls)
            /\ driver_pc' = "upload"
            /\ run' = run + 1
            /\ main_pc' = "pool"
            /\ task' = [i \in 1..Len(extract_result.calls) |-> QueuedTask]
    /\ UNCHANGED <<extract_result, merged, load_result>>
    /\ UNCHANGED <<max_workers, seen_existing_files, bucket,
                   failed_records, skipped_no_url_records, results, upload_map,
                   summary, failed_uploads_csv, sleep_log>>
    /\ UNCHANGED sideVars

\* upload_recordings_parallel raised: nothing in the driver catches it
UploadRaised ==
    /\ driver_pc = "upload"
    /\ main_pc = "raised"
    /\ driver_pc' = "raised"
    /\ UNCHANGED <<extract_result, merged, load_result>>
    /\ UNCHANGED <<df, max_workers, run, main_pc, task, seen_existing_files, bucket,
                   failed_records, skipped_no_url_records, results, upload_map,
                   summary, failed_uploads_csv, sleep_log>>
    /\ UNCHANGED sideVars

\* upload_recordings_parallel returned: the signed URLs are mapped back to
\* the DataFrame and the intermediate CSV is saved
MergeStage ==
    /\ driver_pc = "upload"
    /\ main_pc = "returned"
    /\ IF ProceedsAfterUpload(summary)
       THEN /\ merged' = MergeSignedUrls(df, upload_map)
            /\ driver_pc' = "load"
       ELSE /\ driver_pc' = "stopped_after_upload"
            /\ UNCHANGED merged
    /\ UNCHANGED <<extract_result, load_result>>
    /\ UNCHANGED <<df, max_workers, run, main_pc, task, seen_existing_files, bucket,
                   failed_records, skipped_no_url_records, results, upload_map,
                   summary, failed_uploads_csv, sleep_log>>
    /\ UNCHANGED sideVars

\* load_to_supabase(df) returns and the driver prints the final report
LoadStage(lo) ==
    /\ driver_pc = "load"
    /\ load_result' = LoadToSupabase(merged, lo)
    /\ driver_pc' = "completed"
    /\ UNCHANGED <<extract_result, merged>>
    /\ UNCHANGED <<df, max_workers, run, main_pc, task, seen_existing_files, bucket,
                   failed_records, skipped_no_url_records, results, upload_map,
                   summary, failed_uploads_csv, sleep_log>>
    /\ UNCHANGED sideVars

DriverNext ==
    \/ \E result \in ExtractResults : ExtractStage(result)
    \/ \E outcome \in TransformOutcomes : TransformStage(outcome)
    \/ \E i \in 1..MaxCalls : Start(i)
    \/ \E i \in 1..MaxCalls, resp \in HeadResponses : HeadRequest(i, resp)
    \/ \E i \in 1..MaxCalls, io \in IssueOutcomes : IssueExisting(i, io)
    \/ \E i \in 1..MaxCalls, so \in StoreOutcomes, io \in IssueOutcomes : Attempt(i, so, io)
    \/ \E i \in 1..MaxCalls : BackoffSleep(i)
    \/ Unwind
    \/ Propagate
    \/ CompileResults
    \/ UploadRaised
    \/ MergeStage
    \/ \E lo \in LoadOutcomes : LoadStage(lo)

DriverSpec == DriverInit /\ [][DriverNext]_vars


\* ------------------------------------------------------------------------
\* _generate_signed_url with the clock: one call after another in a process
\* whose clock advances, for the responses create_signed_url can give
\* ------------------------------------------------------------------------

\* the local clocks, in seconds since the epoch, at which the process starts:
\* midnight and the last second of a day
StartTimes == {0, 86399}

\* what the remote says about the expiry in its response: nothing, the
\* epoch, or its own clock plus the TTL
ReportedExpiries == {<<>>, <<0>>, <<SIGNED_URL_EXPIRY_HOURS * 3600 + 5>>}

\* the responses of create_signed_url: an exception, or a dict with the key
\* signedURL, with the key signed_url, or with neither
IssuerResponses ==
    [kind : {"raises", "signedURL", "signed_url", "neither"}, expires_at : ReportedExpiries]

\* datetime.isoformat() of an aware UTC datetime t seconds after the epoch:
\* the date as the day number, the time of day, and the UTC offset
IsoFormat(t) ==
    [date |-> t \div 86400,
     hour |-> (t % 86400) \div 3600,
     minute |-> (t % 3600) \div 60,
     second |-> t % 60,
     utcoffset |-> "+00:00"]

\* expires_in = SIGNED_URL_EXPIRY_HOURS * 3600
ExpiresIn == SIGNED_URL_EXPIRY_HOURS * 3600

\* an issuer that returns the expiry the remote reports when it reports one
GenerateSignedUrlReported(call_id, data, now_utc) ==
    IF data.kind = "raises"
    THEN [raised |-> FALSE, signed_url |-> None, expiry |-> <<>>]
    ELSE [raised |-> FALSE,
          signed_url |-> IF data.kind = "neither" THEN None ELSE SignedUrl(call_id),
          expiry |-> IF data.expires_at # <<>> THEN <<IsoFormat(data.expires_at[1])>>
                     ELSE <<IsoFormat(now_utc + ExpiresIn)>>]

\* the try block of _generate_signed_url for the response data, with
\* datetime.now(timezone.utc) = now_utc read after the response
GenerateSignedUrlAt(call_id, data, now_utc) ==
    IF data.kind = "raises"
    THEN [raised |-> FALSE, signed_url |-> None, expiry |-> <<>>]
    ELSE [raised |-> FALSE,
          signed_url |-> IF data.kind = "neither" THEN None ELSE SignedUrl(call_id),
          expiry |-> <<IsoFormat(now_utc + ExpiresIn)>>]

IssuerInit ==
    /\ issuer \in {[NoIssuer EXCEPT !.pc = "idle", !.now = t] : t \in StartTimes}
    /\ script = <<>>
    /\ extractor = NoExtractor
    /\ loader = NoLoader
    /\ df = <<>>
    /\ max_workers = MAX_WORKERS
    /\ run = 0
    /\ main_pc = "not_called"
    /\ task = <<>>
    /\ seen_existing_files = {}
    /\ bucket = [k \in Keys |-> OldObject]
    /\ failed_records = <<>>
    /\ skipped_no_url_records = <<>>
    /\ results = <<>>
    /\ upload_map = EmptyMap
    /\ summary = NoSummary
    /\ failed_uploads_csv = NoFile
    /\ sleep_log = <<>>
    /\ driver_pc = "not_run"
    /\ extract_result = NoExtract
    /\ merged = <<>>
    /\ load_result = NoLoad

\* the local clock advances by a second, at any point of a call
IssuerTick ==
    /\ issuer.pc \in {"idle", "requested", "returned"}
    /\ issuer.ticks < MaxTicks
    /\ issuer' = [issuer EXCEPT !.now = @ + 1, !.ticks = @ + 1]
    /\ UNCHANGED <<uploadVars, driverVars, script, extractor, loader>>

\* _generate_signed_url(call_id) up to the request: the client is built
\* outside the try block, then create_signed_url is sent with expires_in
IssuerRequest(call_id, client_ok) ==
    /\ issuer.pc = "idle"
    /\ issuer' = IF client_ok
                 THEN [issuer EXCEPT !.pc = "requested", !.call_id = call_id,
                                     !.expires_in = ExpiresIn,
                                     !.data = NoData, !.ret = NoIssued]
                 ELSE [issuer EXCEPT !.pc = "returned", !.call_id = call_id,
                                     !.expires_in = 0, !.data = NoData,
                                     !.ret = [NoIssued EXCEPT !.raised = TRUE]]
    /\ UNCHANGED <<uploadVars, driverVars, script, extractor, loader>>

\* create_signed_url answers and _generate_signed_url returns
IssuerRespond(data) ==
    /\ issuer.pc = "requested"
    /\ issuer' = [issuer EXCEPT !.pc = "returned", !.data = data,
                                !.ret = GenerateSignedUrlAt(issuer.call_id, data, issuer.now)]
    /\ UNCHANGED <<uploadVars, driverVars, script, extractor, loader>>

\* the process is ready for the next call of _generate_signed_url
IssuerAgain ==
    /\ issuer.pc = "returned"
    /\ issuer' = [issuer EXCEPT !.pc = "idle"]
    /\ UNCHANGED <<uploadVars, driverVars, script, extractor, loader>>

IssuerNext ==
    \/ IssuerTick
    \/ \E call_id \in Keys, client_ok \in BOOLEAN : IssuerRequest(call_id, client_ok)
    \/ \E data \in IssuerResponses : IssuerRespond(data)
    \/ IssuerAgain

IssuerSpec == IssuerInit /\ [][IssuerNext]_vars


\* ------------------------------------------------------------------------
\* extract_calls (src/extract.py): the pagination loop. The records of a
\* page are kept as one chunk [page, size]; a list of calls is the sequence
\* of its chunks
\* ------------------------------------------------------------------------

\* the numbers of records a page can hold: none, one, a page that is one
\* short of the limit and a full page
PageSizes == {0, 1, VAPI_PAGE_LIMIT - 1, VAPI_PAGE_LIMIT}

\* metadata.totalItems: 0 for absent or zero, the largest count the guard
\* lets pass and the first it stops
TotalItems == {0, MAX_TOTAL_ITEMS, MAX_TOTAL_ITEMS + 1}

\* how requests.get, raise_for_status and resp.json() can end for a page:
\* the last page the API has is not full
PageOutcomes(page) ==
    {o \in [kind : {"RequestException", "Exception", "ok"}, size : PageSizes,
            totalItems : TotalItems] :
        /\ o.kind # "ok" => o.size = 0 /\ o.totalItems = 0
        /\ page >= MaxPages => o.size < VAPI_PAGE_LIMIT}

\* _fetch_page: the dict returned for an outcome
FetchPage(o) ==
    IF o.kind = "ok"
    THEN [success |-> TRUE, size |-> o.size, totalItems |-> o.totalItems]
    ELSE [success |-> FALSE, size |-> 0, totalItems |-> 0]

\* len(all_calls)
RECURSIVE CountCalls(_)
CountCalls(chunks) ==
    IF chunks = <<>> THEN 0
    ELSE chunks[1].size + CountCalls(Tail(chunks))

\* the dict returned after the loop
Extracted(all_calls, page) ==
    [success |-> TRUE, calls |-> all_calls, num_calls |-> CountCalls(all_calls),
     num_pages |-> page]

\* a loop that reports the failure of a page as a failure of the extraction
AfterFetchFailureReported(all_calls, page) ==
    [success |-> FALSE, calls |-> <<>>, num_calls |-> 0, num_pages |-> page]

\* if not result["success"]: break, and the return after the loop follows
AfterFetchFailure(all_calls, page) == Extracted(all_calls, page)

\* the dict returned by the guard of page 1
TooManyItems(page) ==
    [success |-> FALSE, calls |-> <<>>, num_calls |-> 0, num_pages |-> page]

\* if total_items and total_items > 10000
GuardTrips(page, total_items) ==
    page = 1 /\ total_items # 0 /\ total_items > MAX_TOTAL_ITEMS

\* a loop that also stops after a full page
LastPageAtLimit(size) == size <= VAPI_PAGE_LIMIT

\* if len(calls) < VAPI_PAGE_LIMIT: break
LastPage(size) == size < VAPI_PAGE_LIMIT

NoResult == [success |-> FALSE, calls |-> <<>>, num_calls |-> 0, num_pages |-> 0]

ExtractInit ==
    /\ extractor \in {[pc |-> "loop", updated_at_gt |-> g, page |-> 1, all_calls |-> <<>>,
                        requests |-> <<>>, result |-> NoResult] : g \in {None, "t0"}}
    /\ script = <<>>
    /\ issuer = NoIssuer
    /\ loader = NoLoader
    /\ df = <<>>
    /\ max_workers = MAX_WORKERS
    /\ run = 0
    /\ main_pc = "not_called"
    /\ task = <<>>
    /\ seen_existing_files = {}
    /\ bucket = [k \in Keys |-> OldObject]
    /\ failed_records = <<>>
    /\ skipped_no_url_records = <<>>
    /\ results = <<>>
    /\ upload_map = EmptyMap
    /\ summary = NoSummary
    /\ failed_uploads_csv = NoFile
    /\ sleep_log = <<>>
    /\ driver_pc = "not_run"
    /\ extract_result = NoExtract
    /\ merged = <<>>
    /\ load_result = NoLoad

\* one iteration of the while loop of extract_calls: the page is requested
\* and, depending on the answer, the function returns or goes on
ExtractIteration(o) ==
    /\ extractor.pc = "loop"
    /\ o \in PageOutcomes(extractor.page)
    /\ LET page == extractor.page
           result == FetchPage(o)
           sent == Append(extractor.requests,
                          [page |-> page, limit |-> VAPI_PAGE_LIMIT,
                           updatedAtGt |-> extractor.updated_at_gt, result |-> result])
           all_calls == Append(extractor.all_calls, [page |-> page, size |-> result.size])
       IN  extractor' =
             IF ~result.success
             THEN [extractor EXCEPT !.pc = "returned", !.requests = sent,
                                    !.result = AfterFetchFailure(extractor.all_calls, page)]
             ELSE IF GuardTrips(page, result.totalItems)
             THEN [extractor EXCEPT !.pc = "returned", !.requests = sent,
                                    !.result = TooManyItems(page)]
             ELSE IF result.size = 0
             THEN [extractor EXCEPT !.pc = "returned", !.requests = sent,
                                    !.result = Extracted(extractor.all_calls, page)]
             ELSE IF LastPage(result.size)
             THEN [extractor EXCEPT !.pc = "returned", !.requests = sent,
                                    !.all_calls = all_calls,
                                    !.result = Extracted(all_calls, page)]
             ELSE [extractor EXCEPT !.requests = sent, !.all_calls = all_calls,
                                    !.page = page + 1]
    /\ UNCHANGED <<uploadVars, driverVars, script, issuer, loader>>

ExtractNext ==
    \E kind \in {"RequestException", "Exception", "ok"}, size \in PageSizes,
       totalItems \in TotalItems :
        ExtractIteration([kind |-> kind, size |-> size, totalItems |-> totalItems])

ExtractSpec == ExtractInit /\ [][ExtractNext]_vars


\* ------------------------------------------------------------------------
\* load_to_supabase (src/load.py): validation and the upsert in batches.
\* The frame is kept as its number of rows, a batch as its offset and size
\* ------------------------------------------------------------------------

\* len(df) of the frames passed in: empty, and frames that end one row into
\* a batch or at the end of a batch
FrameSizes ==
    {0} \cup {b * BATCH_SIZE + r : b \in 0..(MaxBatches - 1), r \in {1, BATCH_SIZE}}

\* records[i : i + BATCH_SIZE]: the number of rows of the batch at offset i
BatchLen(total_records, i) ==
    IF total_records - i < BATCH_SIZE THEN total_records - i ELSE BATCH_SIZE

\* len(resp.data) for a batch: no data, one row, or every row of the batch
RowsBack(size) == {0, 1, size}

\* an except branch that leaves fail_count at its initial value
FailCountInitial(total_records, success_count) == 0

\* fail_count = total_records - success_count
FailCount(total_records, success_count) == total_records - success_count

LoadInit ==
    /\ loader \in {[pc |-> "called", total_records |-> n, schema |-> "unchecked", i |-> 0,
                     success_count |-> 0, batches |-> <<>>,
                     result |-> [success |-> 0, failed |-> 0, error |-> FALSE]] :
                        n \in FrameSizes}
    /\ script = <<>>
    /\ issuer = NoIssuer
    /\ extractor = NoExtractor
    /\ df = <<>>
    /\ max_workers = MAX_WORKERS
    /\ run = 0
    /\ main_pc = "not_called"
    /\ task = <<>>
    /\ seen_existing_files = {}
    /\ bucket = [k \in Keys |-> OldObject]
    /\ failed_records = <<>>
    /\ skipped_no_url_records = <<>>
    /\ results = <<>>
    /\ upload_map = EmptyMap
    /\ summary = NoSummary
    /\ failed_uploads_csv = NoFile
    /\ sleep_log = <<>>
    /\ driver_pc = "not_run"
    /\ extract_result = NoExtract
    /\ merged = <<>>
    /\ load_result = NoLoad

\* load_to_supabase up to the loop: the empty frame and the frame that
\* fails validate_dataframe_schema return at once
LoadEnter(schema_ok) ==
    /\ loader.pc = "called"
    /\ loader' =
          IF loader.total_records = 0
          THEN [loader EXCEPT !.pc = "returned",
                              !.result = [success |-> 0, failed |-> 0, error |-> FALSE]]
          ELSE IF ~schema_ok
          THEN [loader EXCEPT !.pc = "returned", !.schema = "invalid",
                              !.result = [success |-> 0, failed |-> loader.total_records,
                                          error |-> TRUE]]
          ELSE [loader EXCEPT !.pc = "loop", !.schema = "valid"]
    /\ UNCHANGED <<uploadVars, driverVars, script, issuer, extractor>>

\* one iteration of the loop: the batch is upserted; an exception ends the
\* function in the except branch
LoadBatch(raises, rows) ==
    /\ loader.pc = "loop"
    /\ loader.i < loader.total_records
    /\ LET size == BatchLen(loader.total_records, loader.i)
           sent == Append(loader.batches,
                          [start |-> loader.i, size |-> size, raised |-> raises,
                           rows |-> IF raises THEN 0 ELSE rows])
       IN  /\ rows \in RowsBack(size)
           /\ raises => rows = 0
           /\ loader' =
                 IF raises
                 THEN [loader EXCEPT !.pc = "returned", !.batches = sent,
                                     !.result = [success |-> loader.success_count,
                                                 failed |-> FailCount(loader.total_records,
                                                                      loader.success_count),
                                                 error |-> TRUE]]
                 ELSE [loader EXCEPT !.batches = sent,
                                     !.success_count = @ + rows,
                                     !.i = @ + BATCH_SIZE]
    /\ UNCHANGED <<uploadVars, driverVars, script, issuer, extractor>>

\* the loop has ended: fail_count is computed and the function returns
LoadReturn ==
    /\ loader.pc = "loop"
    /\ loader.i >= loader.total_records
    /\ loader' = [loader EXCEPT !.pc = "returned",
                                !.result = [success |-> loader.success_count,
                                            failed |-> FailCount(loader.total_records,
                                                                 loader.success_count),
                                            error |-> FALSE]]
    /\ UNCHANGED <<uploadVars, driverVars, script, issuer, extractor>>

LoadNext ==
    \/ \E schema_ok \in BOOLEAN : LoadEnter(schema_ok)
    \/ \E raises \in BOOLEAN, rows \in {0, 1, BATCH_SIZE} : LoadBatch(raises, rows)
    \/ LoadReturn

LoadSpec == LoadInit /\ [][LoadNext]_vars


\* ------------------------------------------------------------------------
\* Properties
\* ------------------------------------------------------------------------

Dispositions == {"uploaded", "signed_url_generated", "skipped_no_stereo_url", "failed"}

Successes == {"uploaded", "signed_url_generated"}

DistinctKeys == \A i, j \in 1..Len(df) : i # j => df[i].id # df[j].id

\* C1: whenever upload_recordings_parallel returns, the four counts of the
\* summary add up to total, and total is the number of input rows.
C1_TotalAccounting ==
    main_pc = "returned" =>
        /\ summary.total = Len(df)
        /\ summary.uploaded + summary.signed_url_generated
             + summary.skipped_no_stereo_url + summary.failed = summary.total

\* a run of two rows with one key has returned, one row uploaded, one failed
C1_Witness ==
    /\ main_pc = "returned"
    /\ Len(df) = 2
    /\ df[1].id = df[2].id
    /\ summary.uploaded = 1
    /\ summary.failed = 1

\* C2: in every outcome the orchestrator returns, signed_url is present
\* exactly when the disposition is uploaded or signed_url_generated.
C2_SignedUrlIffSuccess ==
    main_pc = "returned" =>
        \A i \in 1..Len(results) :
            (results[i].signed_url # None) <=> (results[i].status \in Successes)

\* C3: no failure inside the processing of a row leaves
\* upload_recordings_parallel: the orchestrator never ends by raising and
\* no sibling row is left without an outcome of its own.
C3_NoFailurePropagates ==
    /\ main_pc # "raised"
    /\ \A i \in DOMAIN task : task[i].pc # "cancelled"

\* C4: a row on the upload path never makes more than MAX_RETRIES attempts,
\* and a row all of whose attempts raised is finished only after exactly
\* MAX_RETRIES attempts and then has the disposition failed.
C4_RetryBound ==
    \A i \in DOMAIN task :
        /\ task[i].attempt <= MAX_RETRIES
        /\ (task[i].pc = "done" /\ task[i].attempt >= 1 /\ task[i].fails = task[i].attempt)
              => (task[i].attempt = MAX_RETRIES /\ task[i].ret.status = "failed")
        /\ (task[i].pc = "done" /\ task[i].attempt >= 1 /\ task[i].ret.status = "failed")
              => (task[i].attempt = MAX_RETRIES /\ task[i].fails = MAX_RETRIES)

\* a row whose probe answered not-found has failed after MAX_RETRIES attempts
C4_Witness ==
    \E i \in DOMAIN task :
        /\ task[i].pc = "done"
        /\ df[i].stereo_recording_url # None
        /\ task[i].fails = MAX_RETRIES
        /\ task[i].attempt = MAX_RETRIES
        /\ task[i].ret.status = "failed"

\* C5: an invocation that has come to rest has returned, and each of its
\* rows has exactly one of the four terminal dispositions.
C5_EveryRowResolved ==
    main_pc \in {"returned", "raised"} =>
        /\ main_pc = "returned"
        /\ \A i \in DOMAIN task :
              task[i].pc = "done" /\ task[i].ret.status \in Dispositions

\* C6: a row whose object was stored but for which no signed URL was issued
\* is never given the disposition uploaded, nor counted as uploaded.
C6_StoredUnsignedIsFailure ==
    /\ \A i \in DOMAIN task :
          task[i].pc = "done" /\ task[i].attempt >= 1 /\ task[i].issued.signed_url = None
              => task[i].ret.status # "uploaded"
    /\ main_pc = "returned" =>
          summary.uploaded =
              Cardinality({i \in DOMAIN task : /\ task[i].ret.status = "uploaded"
                                                /\ task[i].ret.signed_url # None})

\* C7: the pair _generate_signed_url returns has either both a URL and an
\* expiry or neither.
C7_IssuerBothOrNeither ==
    \A i \in DOMAIN task :
        (task[i].issued.signed_url = None) <=> (task[i].issued.expiry = None)

\* C8: once a key is in the existence cache, no HEAD request for that key
\* is made.
C8_NoHeadAfterCached ==
    [][\A i \in DOMAIN task :
          (task[i].pc = "head" /\ task'[i].pc # "head")
              => df[i].id \notin seen_existing_files]_vars

\* C9: a store of a key whose object is already in the bucket has the same
\* result as a store of that key into a bucket without the object, and
\* leaves the fetched content under the key.
C9_StoreOverExisting ==
    \A i \in DOMAIN task :
        (task[i].pc = "attempt" /\ bucket[df[i].id] # None) =>
            \A io \in IssueOutcomes :
                LET call_id == df[i].id
                    url == df[i].stereo_recording_url
                    onExisting == UploadRecording(call_id, url, "stored", io, bucket)
                    onFresh == UploadRecording(call_id, url, "stored", io,
                                               [bucket EXCEPT ![call_id] = None])
                IN  /\ onExisting.raised = onFresh.raised
                    /\ onExisting.signed_url = onFresh.signed_url
                    /\ onExisting.expiry = onFresh.expiry
                    /\ onExisting.bucket[call_id] = url

\* two rows of one key have both stored their recording and got a URL: the
\* later store found the object of the earlier one
C9_Witness ==
    \E i, j \in DOMAIN task :
        /\ i # j
        /\ df[i].id = df[j].id
        /\ task[i].pc = "done" /\ task[i].ret.status = "uploaded"
        /\ task[j].pc = "done" /\ task[j].ret.status = "uploaded"
        /\ task[i].ret.signed_url # None /\ task[j].ret.signed_url # None
        /\ bucket[df[i].id] = df[i].stereo_recording_url

\* C10: for rows with pairwise distinct keys, the comprehension never
\* changes or removes an entry it has written, and the returned upload_map
\* has one entry for each input key, the outcome of that row, and no entry
\* for another key.
C10_OneOutcomePerRow ==
    (main_pc = "returned" /\ DistinctKeys) =>
        /\ DOMAIN upload_map = {df[i].id : i \in 1..Len(df)}
        /\ \A i \in 1..Len(df) : upload_map[df[i].id] = MapEntry(results[i])
        /\ \A n \in 1..Len(results) :
              LET before == BuildUploadMap(SubSeq(results, 1, n - 1))
                  after == BuildUploadMap(SubSeq(results, 1, n))
              IN  \A k \in DOMAIN before : k \in DOMAIN after /\ after[k] = before[k]

\* two rows with different keys, one of them failed, and the map returned
C10_Witness ==
    /\ main_pc = "returned"
    /\ Len(df) = 2
    /\ df[1].id # df[2].id
    /\ Cardinality(DOMAIN upload_map) = 2
    /\ \E i \in 1..2 : results[i].status = "failed"

\* the rows of df equal to row whose task ended with the disposition failed
FailedRowsLike(row) ==
    {i \in DOMAIN task : df[i] = row /\ task[i].pc = "done" /\ task[i].ret.status = "failed"}

\* the entries of failed_records with the id and the URL of row
SpoolEntriesLike(row) ==
    {n \in 1..Len(failed_records) :
        /\ failed_records[n].id = row.id
        /\ failed_records[n].stereo_recording_url = row.stereo_recording_url}

\* C11: when upload_recordings_parallel returns, failed_records has one
\* entry, with the id and the original URL, for each row whose disposition
\* is failed, no other entry, and as many entries as summary.failed.
C11_SpoolMatchesFailedRows ==
    main_pc = "returned" =>
        /\ Len(failed_records) = summary.failed
        /\ \A n \in 1..Len(failed_records) : failed_records[n] \in Row
        /\ \A row \in Row :
              Cardinality(SpoolEntriesLike(row)) = Cardinality(FailedRowsLike(row))

\* a run of two rows has returned, one of them failed and is in the spool
C11_Witness ==
    /\ main_pc = "returned"
    /\ Len(df) = 2
    /\ summary.failed = 1
    /\ Len(failed_records) = 1
    /\ \E i \in 1..2 : results[i].status = "failed" /\ failed_records[1] = df[i]

\* C12: after a run has completed, the content of FAILED_UPLOADS_CSV is
\* exactly the rows that failed in that run; a run without a failed row
\* leaves no entry of an earlier run in it.
C12_FileHoldsThisRunsFailures ==
    main_pc = "returned" => failed_uploads_csv.rows = failed_records

\* C14: a row without a stereo_recording_url never leaves the start of its
\* task except by returning skipped_no_stereo_url with no signed URL and no
\* expiry: no probe, no issuance, no attempt, and no spool entry for it.
C14_MissingUrlIsSkipped ==
    \A i \in DOMAIN task :
        df[i].stereo_recording_url = None =>
            /\ task[i].pc \in {"queued", "cancelled", "done"}
            /\ task[i].attempt = 0
            /\ task[i].fails = 0
            /\ task[i].sleeps = 0
            /\ task[i].issued = Pair(None, None)
            /\ task[i].pc = "done" =>
                  task[i].ret = Ret(df[i].id, None, None, "skipped_no_stereo_url")
            /\ SpoolEntriesLike(df[i]) = {}

\* a row without a URL has been skipped while a row of the same key with a
\* URL was probed, uploaded after a retry, and the run returned
C14_Witness ==
    /\ main_pc = "returned"
    /\ \E i, j \in DOMAIN task :
          /\ df[i].stereo_recording_url = None
          /\ results[i].status = "skipped_no_stereo_url"
          /\ df[j].id = df[i].id
          /\ df[j].stereo_recording_url # None
          /\ task[j].attempt = 2
          /\ results[j].status = "uploaded"

\* C15: a row with a URL whose object the probe found makes no attempt to
\* fetch or store: its task goes to the issuance and ends there, with
\* signed_url_generated, a signed URL and an expiry when a URL was issued,
\* and with failed, without a retry, when none was.
C15_ExistingObjectIsOnlySigned ==
    \A i \in DOMAIN task :
        (/\ df[i].stereo_recording_url # None
         /\ task[i].attempt = 0
         /\ task[i].pc \notin {"queued", "cancelled", "head"}) =>
            /\ task[i].pc \in {"issue", "done"}
            /\ task[i].fails = 0
            /\ task[i].sleeps = 0
            /\ task[i].pc = "done" =>
                  \/ /\ task[i].ret.status = "signed_url_generated"
                     /\ task[i].ret.signed_url # None
                     /\ task[i].ret.expiry # None
                  \/ /\ task[i].ret.status = "failed"
                     /\ task[i].issued.signed_url = None

\* C16: a row that ends with uploaded made its successful attempt k after
\* k - 1 failed attempts and k - 1 backoff sleeps, with k at most
\* MAX_RETRIES, and has no entry in failed_records; a success of the first
\* attempt is one attempt without a sleep.
C16_FirstSuccessEndsLoop ==
    \A i \in DOMAIN task :
        (task[i].pc = "done" /\ task[i].ret.status = "uploaded") =>
            /\ df[i].stereo_recording_url # None
            /\ task[i].attempt \in 1..MAX_RETRIES
            /\ task[i].fails = task[i].attempt - 1
            /\ task[i].sleeps = task[i].attempt - 1
            /\ Cardinality(SpoolEntriesLike(df[i])) = Cardinality(FailedRowsLike(df[i]))

\* one row was uploaded by its first attempt, another by its last
C16_Witness ==
    \E i, j \in DOMAIN task :
        /\ task[i].pc = "done" /\ task[i].ret.status = "uploaded"
        /\ task[i].attempt = 1 /\ task[i].sleeps = 0
        /\ task[j].pc = "done" /\ task[j].ret.status = "uploaded"
        /\ task[j].attempt = MAX_RETRIES /\ task[j].fails = MAX_RETRIES - 1
        /\ failed_records = <<>>

\* C17: an invocation with an empty DataFrame starts no task, returns
\* without raising a summary of zeros and an empty upload_map, touches
\* neither the cache nor the bucket and does not write FAILED_UPLOADS_CSV.
C17_EmptyInput ==
    Len(df) = 0 =>
        /\ main_pc \in {"pool", "returned"}
        /\ DOMAIN task = {}
        /\ failed_records = <<>>
        /\ skipped_no_url_records = <<>>
        /\ failed_uploads_csv.written => failed_uploads_csv.rows # <<>>
        /\ run = 1 =>
              /\ failed_uploads_csv = NoFile
              /\ seen_existing_files = {}
              /\ \A k \in Keys : bucket[k] \in {None, OldObject}
        /\ main_pc = "returned" =>
              /\ results = <<>>
              /\ DOMAIN upload_map = {}
              /\ summary.total = 0
              /\ summary.success = 0
              /\ summary.uploaded = 0
              /\ summary.signed_url_generated = 0
              /\ summary.skipped_no_stereo_url = 0
              /\ summary.failed = 0

\* the first invocation of the process had no row and has returned
C17_Witness ==
    /\ Len(df) = 0
    /\ run = 1
    /\ main_pc = "returned"
    /\ ~failed_uploads_csv.written

\* C13: a HEAD request that answers anything but 200 (404, another status,
\* a network error) makes _file_exists_in_bucket return False without
\* raising and without caching the key, and the task goes to attempt 1 of
\* the upload: the step neither fails the row nor raises.
C13_ProbeFailureGoesToUpload ==
    [][\A i \in DOMAIN task :
          (task[i].pc = "head" /\ task'[i].pc # "head") =>
              /\ \A resp \in HeadResponses \ {"200"} :
                    /\ ~FileExistsAfterHead(resp)
                    /\ SeenAfterHead(seen_existing_files, df[i].id, resp)
                          = seen_existing_files
              /\ \/ /\ task'[i].pc = "issue"
                    /\ bucket[df[i].id] # None
                    /\ df[i].id \in seen_existing_files'
                 \/ /\ task'[i].pc = "attempt"
                    /\ task'[i].attempt = 1
                    /\ task'[i].fails = 0
                    /\ seen_existing_files' = seen_existing_files
                    /\ failed_records' = failed_records
                    /\ main_pc' = main_pc]_vars

\* the object of the only row is in the bucket, the probe did not answer
\* 200 all the same, and the task is at its first attempt
C13_Witness ==
    /\ Len(df) = 1
    /\ main_pc = "pool"
    /\ bucket[df[1].id] = OldObject
    /\ task[1].pc = "attempt"
    /\ task[1].attempt = 1
    /\ df[1].id \notin seen_existing_files

\* C18: once upload_recordings_parallel has returned, the driver goes on
\* to the merge and to load_to_supabase with every row, whatever the
\* counts of failed and skipped rows: it never stops between the two.
C18_UploadThenLoad ==
    (main_pc = "returned" /\ driver_pc # "upload") =>
        /\ driver_pc \in {"load", "completed"}
        /\ Len(merged) = Len(df)
        /\ driver_pc = "completed" => load_result.called

\* the pipeline has completed and has loaded two rows, one whose upload
\* failed and one that was skipped
C18_Witness ==
    /\ driver_pc = "completed"
    /\ summary.failed = 1
    /\ summary.skipped_no_stereo_url = 1
    /\ load_result.called
    /\ load_result.success = 2

\* C19: every failure of _upload_recording (client construction, fetch,
\* store, congestion) is one caught exception of one attempt; the
\* congestion case sleeps first and is counted like the others, so a row
\* whose attempts all end in congestion makes MAX_RETRIES attempts and fails.
C19_EveryFailureCountsOnce ==
    \A i \in DOMAIN sleep_log :
        /\ sleep_log[i].socket_sleeps <= task[i].fails
        /\ task[i].fails <= task[i].attempt
        /\ task[i].pc = "backoff" => task[i].fails = task[i].attempt
        /\ task[i].pc = "attempt" =>
              /\ task[i].fails = task[i].attempt - 1
              /\ \A so \in StoreOutcomes \ {"stored"} :
                    LET up == UploadRecording(df[i].id, df[i].stereo_recording_url,
                                              so, "ok", bucket)
                    IN  up.raised /\ (up.slept <=> so = "congestion")
        /\ (/\ task[i].pc = "done"
            /\ task[i].attempt >= 1
            /\ sleep_log[i].socket_sleeps = task[i].attempt) =>
               /\ task[i].attempt = MAX_RETRIES
               /\ task[i].fails = MAX_RETRIES
               /\ task[i].ret.status = "failed"

\* every attempt of a row ended in congestion and the row has failed
C19_Witness ==
    \E i \in DOMAIN sleep_log :
        /\ task[i].pc = "done"
        /\ sleep_log[i].socket_sleeps = MAX_RETRIES
        /\ task[i].attempt = MAX_RETRIES
        /\ task[i].ret.status = "failed"

\* C20: the retry loop sleeps once after each failed attempt n below
\* MAX_RETRIES, for BACKOFF_BASE * n seconds plus a jitter between 0 and 2,
\* and at no other time: not before attempt 1 and not after the last
\* failed attempt, so a row all of whose attempts fail sleeps
\* MAX_RETRIES - 1 times.
C20_LinearBackoff ==
    \A i \in DOMAIN sleep_log :
        LET wait_times == sleep_log[i].wait_times
        IN  /\ \A n \in 1..Len(wait_times) :
                  /\ n < MAX_RETRIES
                  /\ wait_times[n] - BACKOFF_BASE * n >= 0
                  /\ wait_times[n] - BACKOFF_BASE * n <= 2
            /\ task[i].attempt = 0 => wait_times = <<>>
            /\ task[i].pc = "attempt" =>
                  Len(wait_times) = task[i].attempt - 1 /\ task[i].sleeps = task[i].attempt - 1
            /\ task[i].pc = "backoff" =>
                  /\ Len(wait_times) = task[i].attempt
                  /\ task[i].sleeps = task[i].attempt - 1
                  /\ task[i].fails = task[i].attempt
            /\ (task[i].pc = "done" /\ task[i].attempt >= 1) =>
                  Len(wait_times) = task[i].attempt - 1 /\ task[i].sleeps = task[i].attempt - 1
            /\ (task[i].pc = "done" /\ task[i].fails = MAX_RETRIES) =>
                  Len(wait_times) = MAX_RETRIES - 1

\* a row has failed after all its attempts and slept twice in between, the
\* first time without jitter and the second time with the whole jitter
C20_Witness ==
    \E i \in DOMAIN sleep_log :
        /\ task[i].pc = "done"
        /\ task[i].ret.status = "failed"
        /\ task[i].fails = MAX_RETRIES
        /\ sleep_log[i].wait_times = <<BACKOFF_BASE, 2 * BACKOFF_BASE + JITTER_MAX>>

\* C21: at every moment of a run the rows whose processing has started and
\* has not reached its end are at most max_workers, and every row of the
\* input has exactly one task, whose tuple is the row's entry of the results.
C21_PoolBound ==
    /\ Cardinality(Running) <= max_workers
    /\ main_pc \in {"pool", "unwinding", "raised", "returned"} => DOMAIN task = 1..Len(df)
    /\ main_pc = "returned" =>
          /\ Len(results) = Len(df)
          /\ \A i \in 1..Len(df) : results[i] = task[i].ret /\ results[i].call_id = df[i].id

\* the pool is full: a row waits in the queue while max_workers rows are
\* being processed
C21_Witness ==
    /\ main_pc = "pool"
    /\ Cardinality(Running) = max_workers
    /\ \E i \in DOMAIN task : task[i].pc = "queued"

\* C23: within one run the file of failed uploads is written at most once,
\* and the step that writes it is taken when every row has reached its end:
\* no row is queued or being processed when the file changes.
C23_FileWrittenOnceAfterDrain ==
    [][failed_uploads_csv' # failed_uploads_csv =>
          /\ ~failed_uploads_csv.written
          /\ \A i \in DOMAIN task : task[i].pc = "done"
          /\ DOMAIN task = 1..Len(df)
          /\ failed_uploads_csv'.rows = failed_records
          /\ main_pc' = "returned"]_vars

\* the file was written after a run of two rows, one failed and one uploaded
C23_Witness ==
    /\ main_pc = "returned"
    /\ failed_uploads_csv.written
    /\ Len(failed_uploads_csv.rows) = 1
    /\ \E i, j \in DOMAIN task :
          task[i].ret.status = "failed" /\ task[j].ret.status = "uploaded"

\* the stages of the driver in the order of main.py, and the positions of
\* the driver at which the pipeline has ended
StageRank(pc) ==
    CASE pc = "extract" -> 1
      [] pc = "transform" -> 2
      [] pc = "upload" -> 3
      [] pc = "load" -> 4
      [] OTHER -> 5

\* C26: the driver runs extraction, normalization, the upload orchestrator
\* and the load in this order, each at most once and each after the one
\* before it has returned; after a failed extraction or an extraction of
\* zero calls neither the orchestrator nor the load is ever invoked.
C26_StagesInOrder ==
    /\ [](/\ run <= 1
          /\ driver_pc = "extract" =>
                extract_result = NoExtract /\ main_pc = "not_called" /\ ~load_result.called
          /\ driver_pc = "transform" =>
                main_pc = "not_called" /\ df = <<>> /\ ~load_result.called
          /\ main_pc # "not_called" =>
                /\ run = 1
                /\ extract_result.success
                /\ extract_result.num_calls > 0
                /\ df = TransformCalls(extract_result.calls)
          /\ main_pc \in {"pool", "unwinding"} => driver_pc = "upload"
          /\ driver_pc = "load" => main_pc = "returned" /\ ~load_result.called
          /\ load_result.called => main_pc = "returned" /\ driver_pc = "completed"
          /\ (driver_pc # "extract" /\ (~extract_result.success \/ extract_result.num_calls = 0)) =>
                /\ driver_pc \in {"extract_failed", "no_calls"}
                /\ main_pc = "not_called"
                /\ run = 0
                /\ task = <<>>
                /\ ~load_result.called)
    /\ [][/\ StageRank(driver_pc') >= StageRank(driver_pc)
          /\ StageRank(driver_pc') <= StageRank(driver_pc) + 1 \/ StageRank(driver_pc') = 5
          /\ StageRank(driver_pc) = 5 => driver_pc' = driver_pc
          /\ run' # run => driver_pc = "transform" /\ driver_pc' = "upload"
          /\ load_result' # load_result => driver_pc = "load" /\ driver_pc' = "completed"
          /\ extract_result' # extract_result => driver_pc = "extract"]_vars

\* the pipeline has run its four stages for two calls and has completed
C26_Witness ==
    /\ driver_pc = "completed"
    /\ extract_result.num_calls = 2
    /\ main_pc = "returned"
    /\ Len(merged) = 2
    /\ load_result.called

\* the orders in which a list of n outcomes can be written into upload_map
Orders(n) == {p \in [1..n -> 1..n] : \A a, b \in 1..n : a # b => p[a] # p[b]}

\* C25: after the merge every row carries the signed URL and the expiry of
\* every outcome of its key, a row whose key has no entry in the map carries
\* None for both, and the merged frame is the same for every order of the
\* outcomes.
C25_MergeByKey ==
    driver_pc \in {"load", "completed"} =>
        /\ Len(merged) = Len(df)
        /\ \A i \in 1..Len(df), j \in 1..Len(results) :
              results[j].call_id = df[i].id =>
                  /\ merged[i].signed_url = results[j].signed_url
                  /\ merged[i].signed_url_expiry = results[j].expiry
        /\ \A i \in 1..Len(df) :
              LET without == [k \in DOMAIN upload_map \ {df[i].id} |-> upload_map[k]]
                  row == MergeSignedUrls(df, without)[i]
              IN  row.signed_url = None /\ row.signed_url_expiry = None
        /\ \A p \in Orders(Len(results)) :
              MergeSignedUrls(df, BuildUploadMap([n \in 1..Len(results) |-> results[p[n]]])) = merged

\* the last row in submission order that has the key of row i
LatestOfKey(i) == CHOOSE j \in 1..Len(df) :
    /\ df[j].id = df[i].id
    /\ \A n \in 1..Len(df) : df[n].id = df[i].id => n <= j

\* C30: when rows share a key the summary still counts every row once, and
\* upload_map has one entry per distinct key, the outcome of the latest row
\* of the key in submission order; the driver writes that one outcome to
\* every row of the key.
C30_DuplicateKeysLastWins ==
    main_pc = "returned" =>
        /\ summary.total = Len(df)
        /\ summary.uploaded + summary.signed_url_generated
              + summary.skipped_no_stereo_url + summary.failed = Len(df)
        /\ DOMAIN upload_map = {df[i].id : i \in 1..Len(df)}
        /\ \A i \in 1..Len(df) :
              upload_map[df[i].id] = [signed_url |-> results[LatestOfKey(i)].signed_url,
                                      signed_url_expiry |-> results[LatestOfKey(i)].expiry]
        /\ driver_pc \in {"load", "completed"} =>
              \A i \in 1..Len(df) :
                  /\ merged[i].signed_url = results[LatestOfKey(i)].signed_url
                  /\ merged[i].signed_url_expiry = results[LatestOfKey(i)].expiry

\* two rows share a key, the first was uploaded and the second was skipped:
\* the map has one entry without URL and the driver has written None to
\* both rows
C30_Witness ==
    /\ driver_pc \in {"load", "completed"}
    /\ Len(df) = 2
    /\ df[1].id = df[2].id
    /\ results[1].status = "uploaded"
    /\ results[1].signed_url # None
    /\ results[2].status = "skipped_no_stereo_url"
    /\ Cardinality(DOMAIN upload_map) = 1
    /\ merged[1].signed_url = None
    /\ summary.total = 2

\* C28: the cache only grows, and only by the key of a row whose HEAD
\* request found the object (the row goes on to the issuance); a probe that
\* ends otherwise (the row goes on to the upload) adds nothing, and neither
\* does an attempt, a stored object included, nor a new invocation.
C28_CacheHoldsProbedKeys ==
    [][/\ seen_existing_files \subseteq seen_existing_files'
       /\ \A k \in seen_existing_files' \ seen_existing_files :
             \E i \in DOMAIN task :
                 /\ df[i].id = k
                 /\ task[i].pc = "head"
                 /\ task'[i].pc = "issue"
                 /\ bucket[k] # None
       /\ (\E i \in DOMAIN task : task[i].pc = "head" /\ task'[i].pc = "attempt") =>
             seen_existing_files' = seen_existing_files
       /\ (\E i \in DOMAIN task : task[i].pc = "attempt" /\ task'[i] # task[i]) =>
             seen_existing_files' = seen_existing_files
       /\ bucket' # bucket => seen_existing_files' = seen_existing_files
       /\ run' # run => seen_existing_files' = seen_existing_files]_vars

\* in a later invocation the cache holds a key that was found in an earlier
\* one and whose object is gone, and not the key that was just uploaded
C28_Witness ==
    /\ run = 2
    /\ main_pc = "returned"
    /\ \E i \in DOMAIN task :
          /\ task[i].ret.status = "uploaded"
          /\ df[i].id \notin seen_existing_files
          /\ bucket[df[i].id] # None
    /\ \E k \in seen_existing_files : bucket[k] = None

\* C29: the cache is not reset by a new invocation, a row whose key is in
\* the cache goes to the issuance without a HEAD request, and when the
\* object of such a row is gone the issuance ends the row as failed with no
\* attempt to upload and no change of the bucket.
C29_StaleCacheHit ==
    [][/\ run' # run => seen_existing_files' = seen_existing_files
       /\ run' = run =>
             \A i \in DOMAIN task :
                 /\ (/\ task[i].pc = "queued"
                     /\ task'[i].pc \notin {"queued", "cancelled"}
                     /\ df[i].stereo_recording_url # None
                     /\ df[i].id \in seen_existing_files) => task'[i].pc = "issue"
                 /\ (/\ task[i].pc = "issue"
                     /\ task'[i].pc # "issue"
                     /\ bucket[df[i].id] = None) =>
                        /\ task'[i].pc = "done"
                        /\ task'[i].ret.status = "failed"
                        /\ task'[i].attempt = 0
                        /\ bucket' = bucket]_vars

\* the seconds since the epoch that an isoformat string of UTC stands for
ParseIso(iso) == iso.date * 86400 + iso.hour * 3600 + iso.minute * 60 + iso.second

\* C24: when an issuance returns a signed URL, the TTL sent to the remote
\* was SIGNED_URL_EXPIRY_HOURS * 3600 seconds and the returned expiry is the
\* local UTC clock at the return plus SIGNED_URL_EXPIRY_HOURS hours, whatever
\* expiry the response carries.
C24_ExpiryIsLocalClockPlusTtl ==
    [][(issuer.pc = "requested" /\ issuer'.pc = "returned" /\ issuer'.ret.signed_url # None) =>
          /\ issuer.expires_in = SIGNED_URL_EXPIRY_HOURS * 60 * 60
          /\ Len(issuer'.ret.expiry) = 1
          /\ issuer'.ret.expiry[1].utcoffset = "+00:00"
          /\ ParseIso(issuer'.ret.expiry[1]) = issuer.now + SIGNED_URL_EXPIRY_HOURS * 60 * 60
          /\ issuer'.ret.expiry[1].date = issuer.now \div 86400 + 7
          /\ issuer'.ret.expiry[1].hour < 24
          /\ issuer'.ret.expiry[1].minute < 60
          /\ issuer'.ret.expiry[1].second < 60]_vars

\* a URL was issued one second after midnight of the second day, the
\* response said the URL expires at the epoch, and the returned expiry is
\* seven days after the local clock
C24_Witness ==
    /\ issuer.pc = "returned"
    /\ issuer.ret.signed_url # None
    /\ issuer.data.expires_at = <<0>>
    /\ issuer.now = 86401
    /\ issuer.ret.expiry = <<[date |-> 8, hour |-> 0, minute |-> 0, second |-> 1,
                              utcoffset |-> "+00:00"]>>

\* whether extract_calls stops after an answer to the request of page k
StopsAfter(k, result) ==
    \/ ~result.success
    \/ result.size = 0
    \/ result.size < 1000
    \/ k = 1 /\ result.totalItems > 10000

\* C27: extract_calls requests the pages 1, 2, 3, ... once each, goes on
\* only after a full page and returns at the first page that fails, is
\* empty or is not full; the calls returned are the pages received, in page
\* order, num_calls is their count, and a page 1 that reports more than
\* 10000 items gives success False with no calls and no further request.
C27_Pagination ==
    LET n == Len(extractor.requests)
        answer(k) == extractor.requests[k].result
    IN  /\ \A k \in 1..n : extractor.requests[k].page = k /\ extractor.requests[k].limit = 1000
        /\ \A k \in 1..(n - 1) : ~StopsAfter(k, answer(k))
        /\ extractor.pc = "loop" =>
              /\ extractor.page = n + 1
              /\ n >= 1 => ~StopsAfter(n, answer(n))
        /\ extractor.pc = "returned" =>
              /\ n >= 1
              /\ StopsAfter(n, answer(n))
              /\ extractor.result.num_pages = n
              /\ IF n = 1 /\ answer(1).success /\ answer(1).totalItems > 10000
                 THEN /\ ~extractor.result.success
                      /\ extractor.result.calls = <<>>
                      /\ extractor.result.num_calls = 0
                 ELSE LET m == IF answer(n).success /\ answer(n).size > 0 THEN n ELSE n - 1
                      IN  /\ extractor.result.calls =
                                [k \in 1..m |-> [page |-> k, size |-> answer(k).size]]
                          /\ extractor.result.num_calls =
                                IF m = 0 THEN 0 ELSE (m - 1) * 1000 + answer(m).size

\* two full pages and a third page with one record: three requests, 2001
\* calls in page order
C27_Witness ==
    /\ extractor.pc = "returned"
    /\ Len(extractor.requests) = 3
    /\ extractor.result.success
    /\ extractor.result.num_calls = 2001
    /\ extractor.result.calls = <<[page |-> 1, size |-> 1000], [page |-> 2, size |-> 1000],
                                  [page |-> 3, size |-> 1]>>

\* what upload_task returns for a row when it runs alone from start to end
\* with the responses sc; the status raises stands for the exception of the
\* issuance
Alone(row, sc, bkt) ==
    IF row.stereo_recording_url = None
    THEN Ret(row.id, None, None, "skipped_no_stereo_url")
    ELSE IF sc.head = "200"
    THEN LET issued == GenerateSignedUrl(row.id, sc.issue)
         IN  IF issued.raised THEN Ret(row.id, None, None, "raises")
             ELSE IF issued.signed_url # None
             THEN Ret(row.id, issued.signed_url, issued.expiry, "signed_url_generated")
             ELSE Ret(row.id, None, None, "failed")
    ELSE LET up == UploadRecording(row.id, row.stereo_recording_url, sc.store, sc.issue, bkt)
         IN  IF up.raised THEN Ret(row.id, None, None, "failed")
             ELSE Ret(row.id, up.signed_url, up.expiry, "uploaded")

\* C22: with pairwise distinct keys and fixed responses per row, every task
\* that has returned has returned what the row gives when it runs alone, and
\* a run that returns has these outcomes as results, their counts as summary
\* and their signed URLs in upload_map, whatever the interleaving was; the
\* run raises exactly when some row's issuance raises.
C22_SameUnderEveryInterleaving ==
    LET alone == [i \in 1..Len(df) |-> Alone(df[i], script[i], bucket)]
        count(status) == Cardinality({i \in 1..Len(df) : alone[i].status = status})
    IN  /\ \A i \in DOMAIN task : task[i].pc = "done" => task[i].ret = alone[i]
        /\ \A i \in DOMAIN task : task[i].pc = "raised" => alone[i].status = "raises"
        /\ main_pc = "raised" => \E i \in 1..Len(df) : alone[i].status = "raises"
        /\ main_pc = "returned" =>
              /\ results = alone
              /\ \A i \in 1..Len(df) : alone[i].status # "raises"
              /\ summary = [total |-> Len(df),
                            success |-> count("uploaded") + count("signed_url_generated"),
                            uploaded |-> count("uploaded"),
                            signed_url_generated |-> count("signed_url_generated"),
                            skipped_no_stereo_url |-> count("skipped_no_stereo_url"),
                            failed |-> count("failed")]
              /\ DOMAIN upload_map = {df[i].id : i \in 1..Len(df)}
              /\ \A i \in 1..Len(df) :
                    /\ upload_map[df[i].id].signed_url = alone[i].signed_url
                    /\ upload_map[df[i].id].signed_url_expiry = alone[i].expiry

\* two rows ran in a pool of two threads: the first was found in the bucket
\* and signed, the second failed after all its attempts
C22_Witness ==
    /\ main_pc = "returned"
    /\ Len(df) = 2
    /\ max_workers = 2
    /\ results[1].status = "signed_url_generated"
    /\ results[2].status = "failed"
    /\ task[2].fails = MAX_RETRIES
    /\ seen_existing_files = {df[1].id}

\* the dict extract_calls returns when the requests 1..n were answered with
\* full pages and page n + 1 is empty
CompleteAfter(n) ==
    [success |-> TRUE,
     calls |-> [k \in 1..n |-> [page |-> k, size |-> 1000]],
     num_calls |-> n * 1000,
     num_pages |-> n + 1]

\* C32: when the fetch of a page fails, extract_calls returns success True
\* with the calls of the pages before it, the same dict as for a complete
\* extraction that ends with an empty page, and the driver goes on as after
\* a complete or an empty extraction; success False is returned by the
\* totalItems guard of page 1 and by nothing else.
C32_FetchFailureIsSuccess ==
    extractor.pc = "returned" =>
        LET n == Len(extractor.requests)
            last == extractor.requests[n].result
        IN  /\ ~last.success =>
                  /\ extractor.result.success
                  /\ extractor.result = CompleteAfter(n - 1)
                  /\ AfterExtract(extractor.result) =
                        IF n = 1 THEN "no_calls" ELSE "transform"
            /\ ~extractor.result.success <=>
                  (n = 1 /\ last.success /\ last.totalItems > 10000)
            /\ AfterExtract(extractor.result) = "extract_failed" <=>
                  (n = 1 /\ last.success /\ last.totalItems > 10000)

\* the fetch of page 2 failed after a full page 1: the extraction returned
\* success with the 1000 calls of page 1
C32_Witness ==
    /\ extractor.pc = "returned"
    /\ Len(extractor.requests) = 2
    /\ ~extractor.requests[2].result.success
    /\ extractor.result.success
    /\ extractor.result.num_calls = 1000
    /\ extractor.result.num_pages = 2

\* the rows the batches before the k-th one of the loader reported back
RECURSIVE RowsBefore(_)
RowsBefore(k) == IF k <= 1 THEN 0 ELSE loader.batches[k - 1].rows + RowsBefore(k - 1)

\* C31: every return of load_to_supabase has success + failed = the number
\* of rows passed in, 0 + 0 for the empty frame and 0 + all after a failed
\* validation; the batches are upserted in the order of the rows, a batch
\* that raises is the last one attempted, and its rows and those of all
\* later batches are among the failed.
C31_LoadAccounting ==
    LET n == Len(loader.batches)
        total == loader.total_records
    IN  /\ \A k \in 1..n :
              /\ loader.batches[k].start = (k - 1) * 1000
              /\ loader.batches[k].size >= 1
              /\ loader.batches[k].size <= 1000
              /\ loader.batches[k].start + loader.batches[k].size <= total
              /\ loader.batches[k].size < 1000 =>
                    loader.batches[k].start + loader.batches[k].size = total
              /\ loader.batches[k].raised => k = n /\ loader.pc = "returned"
        /\ loader.pc = "returned" =>
              /\ loader.result.success + loader.result.failed = total
              /\ total = 0 =>
                    loader.result.success = 0 /\ loader.result.failed = 0 /\ n = 0
              /\ loader.schema = "invalid" =>
                    loader.result.success = 0 /\ loader.result.failed = total /\ n = 0
              /\ (n >= 1 /\ loader.batches[n].raised) =>
                    /\ loader.result.success = RowsBefore(n)
                    /\ loader.result.failed >= total - loader.batches[n].start
              /\ (total > 0 /\ loader.schema = "valid" /\ ~loader.result.error) =>
                    /\ n >= 1
                    /\ loader.batches[n].start + loader.batches[n].size = total
                    /\ loader.result.success = RowsBefore(n + 1)

\* a frame of 2001 rows: the first batch was upserted, the second raised,
\* the third was never sent, and 1001 rows are counted as failed
C31_Witness ==
    /\ loader.pc = "returned"
    /\ loader.total_records = 2001
    /\ Len(loader.batches) = 2
    /\ loader.batches[2].raised
    /\ loader.result.success = 1000
    /\ loader.result.failed = 1001

====
